---- MODULE Spec2Model ----
(***************************************************************************)
(* Arena-allocated tree of the mannequin crate: DirectedArenaTree          *)
(* (set_root, add, node_by_id, root, iter_depth), its one-way conversion   *)
(* into a DepthFirstArenaTree (update_child_indices, sort_by_indices, id   *)
(* index rebuild) and the slice iterators of the converted tree; the       *)
(* kinematics built on the converted tree: TransformationAccumulation,     *)
(* DifferentiableModel (setup, compute) and DifferentialInverseModel       *)
(* (solve); the accumulating iterators of forward.rs and arena/depth.rs    *)
(* advanced item by item.                                                  *)
(*                                                                         *)
(* Arena indices are 0-based as in the source; TLA+ sequences are 1-based, *)
(* so the node stored at arena index i is nodes[i + 1].  Option<T> is the  *)
(* empty tuple (None) or a one-element tuple (Some(x)).                    *)
(***************************************************************************)
EXTENDS Integers, Sequences, FiniteSets, TLC

\* Largest number of nodes a tree is grown to.
MaxNodes == 4
\* Number of distinct node ids callers choose from.
NumIds == 4
\* Largest slice handed to sort_by_indices on its own.
MaxLen == 4
\* Largest number of segments of a tree handed to a DifferentiableModel.
MaxBodies == 3
\* Largest max_iterations_count a DifferentialInverseModel is built with.
MaxIterations == 2
\* Largest tree handed to the conversion on its own.
MaxGrown == 5

Ids == 1..NumIds
Loads == {0}
Values == {0, 1, 2}

VARIABLES
    nodes,      \* DirectedArenaTree.nodes: Vec<ArenaNode>
    lookup,     \* DirectedArenaTree.lookup: HashMap<NodeId, usize>
    phase,      \* "directed", "depthfirst" (after From), "panicked", "diverged"
    ret,        \* result of the last call: <<kind, argument>>
    order,      \* optimal_order of the conversion, <<>> before it
    sdata,      \* sort_by_indices on its own: the slice
    sindices,   \* sort_by_indices on its own: the index vector
    sout,       \* sort_by_indices on its own: the result
    spc,        \* sort_by_indices on its own: "idle" | "ready" | "done"
    params,     \* the caller's parameter slice, one entry per node
    sel,        \* the caller's id lists: [joints, effectors]
    trafos,     \* the pairs the last accumulate() emitted
    model,      \* the DifferentiableModel
    ik,         \* the DifferentialInverseModel and the locals of its solve
    scan        \* an accumulating iterator that is advanced item by item

vars == <<nodes, lookup, phase, ret, order, sdata, sindices, sout, spc,
          params, sel, trafos, model, ik, scan>>
treeVars == <<nodes, lookup, phase, ret, order>>
sortVars == <<sdata, sindices, sout, spc>>
kinVars == <<params, sel, trafos, model, ik, scan>>

None == <<>>
Some(x) == <<x>>

\* The element of a Vec at a 0-based index.
At(s, i) == s[i + 1]

Last(s) == s[Len(s)]
ButLast(s) == SubSeq(s, 1, Len(s) - 1)

(***************************************************************************)
(* ArenaNode and the DirectedArenaTree                                     *)
(***************************************************************************)
ArenaNode(payload, node_ref, index, width, children, depth, parent) ==
    [load |-> payload, id |-> node_ref, index |-> index, width |-> width,
     children |-> children, depth |-> depth, parent_ref |-> parent]

\* Variant of Insert: an id the index already holds keeps its old entry
\* (entry(k).or_insert(v)).
InsertIfAbsent(lk, k, v) ==
    [x \in (DOMAIN lk) \cup {k} |-> IF x \in DOMAIN lk THEN lk[x] ELSE v]

\* HashMap::insert
Insert(lk, k, v) == [x \in (DOMAIN lk) \cup {k} |-> IF x = k THEN v ELSE lk[x]]

\* HashMap::new
EmptyMap == [x \in {} |-> 0]

\* BaseDirectionIterable::node_by_id: lookup.get(id)?, then nodes.get(index)
node_by_id(ns, lk, node_ref) ==
    IF node_ref \notin DOMAIN lk THEN None
    ELSE IF lk[node_ref] < Len(ns) THEN Some(At(ns, lk[node_ref])) ELSE None

\* BaseDirectionIterable::root: nodes.first().ok_or(RootNotSet)
root(ns) == IF ns = <<>> THEN <<"RootNotSet", None>> ELSE <<"Ok", Some(ns[1])>>

\* self.nodes.iter().any(|n| n.id() == node_ref)
IdInUse(ns, node_ref) == \E k \in 1..Len(ns) : ns[k].id = node_ref

\* Variant of ChildDepth: the "+ 1" is forgotten.
ChildDepthOfParent(parent) == parent.depth

\* let depth = parent.depth + 1
ChildDepth(parent) == parent.depth + 1

\* Variant of UpdateParents: the walk up the parent chain is left out, only
\* the direct parent's width is counted.
UpdateParentsSkipped(ns, p) == [nodes |-> ns, err |-> None]

\* The loop "while let Some(parent_ref) = parent.parent_ref" of add: p is the
\* arena index of the node `parent` refers to.  err is Some(i) when
\* nodes.get_mut(i) fails, after the widths so far have been written.
RECURSIVE UpdateParents(_, _)
UpdateParents(ns, p) ==
    LET pr == At(ns, p).parent_ref IN
    IF pr = None THEN [nodes |-> ns, err |-> None]
    ELSE LET r == pr[1] IN
         IF r >= Len(ns) THEN [nodes |-> ns, err |-> Some(r)]
         ELSE UpdateParents([ns EXCEPT ![r + 1].width = @ + 1], r)

\* Variant of AddResult: the uniqueness check runs after the parent has been
\* updated (the order the TODO in add describes).
AddResultCheckLate(ns, lk, load, node_ref, parent) ==
    LET found == node_by_id(ns, lk, parent) IN
    IF found = None
    THEN [nodes |-> ns, lookup |-> lk, ret |-> <<"UnknownNode", parent>>]
    ELSE
    LET index == Len(ns)
        parent_index == found[1].index
    IN  IF parent_index >= Len(ns)
        THEN [nodes |-> ns, lookup |-> lk,
              ret |-> <<"ReferenceOutOfBound", parent_index>>]
        ELSE
        LET depth == ChildDepth(At(ns, parent_index))
            ns1 == [ns EXCEPT ![parent_index + 1].children = Append(@, index),
                              ![parent_index + 1].width = @ + 1]
            up == UpdateParents(ns1, parent_index)
        IN  IF IdInUse(ns, node_ref)
            THEN [nodes |-> ns1, lookup |-> lk, ret |-> <<"NotUnique", node_ref>>]
            ELSE IF up.err # None
            THEN [nodes |-> up.nodes, lookup |-> lk,
                  ret |-> <<"ReferenceOutOfBound", up.err[1]>>]
            ELSE [nodes |-> Append(up.nodes,
                                   ArenaNode(load, node_ref, index, 1, <<>>,
                                             depth, Some(parent_index))),
                  lookup |-> Insert(lk, node_ref, index),
                  ret |-> <<"Ok", node_ref>>]

\* Variant of AddResult: the new node's parent reference is the node count
\* after the push instead of the parent's index.
AddResultParentRefIsLen(ns, lk, load, node_ref, parent) ==
    LET found == node_by_id(ns, lk, parent) IN
    IF found = None
    THEN [nodes |-> ns, lookup |-> lk, ret |-> <<"UnknownNode", parent>>]
    ELSE IF IdInUse(ns, node_ref)
    THEN [nodes |-> ns, lookup |-> lk, ret |-> <<"NotUnique", node_ref>>]
    ELSE
    LET index == Len(ns)
        parent_index == found[1].index
    IN  IF parent_index >= Len(ns)
        THEN [nodes |-> ns, lookup |-> lk,
              ret |-> <<"ReferenceOutOfBound", parent_index>>]
        ELSE
        LET depth == ChildDepth(At(ns, parent_index))
            ns1 == [ns EXCEPT ![parent_index + 1].children = Append(@, index),
                              ![parent_index + 1].width = @ + 1]
            up == UpdateParents(ns1, parent_index)
        IN  IF up.err # None
            THEN [nodes |-> up.nodes, lookup |-> lk,
                  ret |-> <<"ReferenceOutOfBound", up.err[1]>>]
            ELSE [nodes |-> Append(up.nodes,
                                   ArenaNode(load, node_ref, index, 1, <<>>,
                                             depth, Some(index + 1))),
                  lookup |-> Insert(lk, node_ref, index),
                  ret |-> <<"Ok", node_ref>>]

\* DirectionIterable::add as a function of the tree and its arguments.
AddResult(ns, lk, load, node_ref, parent) ==
    LET found == node_by_id(ns, lk, parent) IN
    IF found = None
    THEN [nodes |-> ns, lookup |-> lk, ret |-> <<"UnknownNode", parent>>]
    ELSE IF IdInUse(ns, node_ref)
    THEN [nodes |-> ns, lookup |-> lk, ret |-> <<"NotUnique", node_ref>>]
    ELSE
    LET index == Len(ns)
        parent_index == found[1].index
    IN  IF parent_index >= Len(ns)
        THEN [nodes |-> ns, lookup |-> lk,
              ret |-> <<"ReferenceOutOfBound", parent_index>>]
        ELSE
        LET depth == ChildDepth(At(ns, parent_index))
            ns1 == [ns EXCEPT ![parent_index + 1].children = Append(@, index),
                              ![parent_index + 1].width = @ + 1]
            up == UpdateParents(ns1, parent_index)
        IN  IF up.err # None
            THEN [nodes |-> up.nodes, lookup |-> lk,
                  ret |-> <<"ReferenceOutOfBound", up.err[1]>>]
            ELSE [nodes |-> Append(up.nodes,
                                   ArenaNode(load, node_ref, index, 1, <<>>,
                                             depth, Some(parent_index))),
                  lookup |-> Insert(lk, node_ref, index),
                  ret |-> <<"Ok", node_ref>>]

\* Variant of SetRootResult: nodes.clear() is left out.
SetRootResultNoClear(ns, lk, root_load, root_ref) ==
    [nodes |-> Append(ns, ArenaNode(root_load, root_ref, 0, 1, <<>>, 0, None)),
     lookup |-> Insert(lk, root_ref, 0),
     ret |-> <<"Ok", root_ref>>]

\* DirectionIterable::set_root as a function of the tree and its arguments.
SetRootResult(ns, lk, root_load, root_ref) ==
    [nodes |-> <<ArenaNode(root_load, root_ref, 0, 1, <<>>, 0, None)>>,
     lookup |-> Insert(lk, root_ref, 0),
     ret |-> <<"Ok", root_ref>>]

(***************************************************************************)
(* DepthFirstIterator (the slow iterator of the DirectedArenaTree)         *)
(***************************************************************************)
\* DepthFirstIterator::new
NewIterator(start) == [root |-> Some(start), stack |-> <<>>]

\* DepthFirstIterator::next: item is Some(arena position) or None.
RECURSIVE IterNext(_, _)
IterNext(ns, it) ==
    IF it.root # None
    THEN [item |-> it.root,
          it |-> [root |-> None,
                  stack |-> Append(it.stack, At(ns, it.root[1]).children)]]
    ELSE IF it.stack # <<>>
    THEN LET last == Last(it.stack) IN
         IF last # <<>>
         THEN LET child_ref == Head(last) IN
              [item |-> Some(child_ref),
               it |-> [root |-> None,
                       stack |-> Append([it.stack EXCEPT ![Len(it.stack)] = Tail(last)],
                                        At(ns, child_ref).children)]]
         ELSE IterNext(ns, [it EXCEPT !.stack = ButLast(it.stack)])
    ELSE [item |-> None, it |-> it]

\* Iterator::collect over a DepthFirstIterator: the arena positions it yields.
RECURSIVE Collect(_, _, _)
Collect(ns, it, out) ==
    LET r == IterNext(ns, it) IN
    IF r.item = None THEN out ELSE Collect(ns, r.it, Append(out, r.item[1]))

\* DirectionIterable::iter_depth / iter_depth_sub
iter_depth(ns) == Collect(ns, NewIterator(0), <<>>)
iter_depth_sub(ns, start) == Collect(ns, NewIterator(start), <<>>)

(***************************************************************************)
(* sort_by_indices (arena/utils.rs)                                        *)
(***************************************************************************)
\* Variant of Swap: the element at j is copied over the one at i instead of
\* being exchanged with it.
SwapOverwrites(data, i, j) == [data EXCEPT ![i + 1] = At(data, j)]

\* slice::swap
Swap(data, i, j) == [data EXCEPT ![i + 1] = At(data, j), ![j + 1] = At(data, i)]

\* Variant of SortCycle: the swap is done before the test that ends the loop.
RECURSIVE SortCycleSwapFirst(_, _, _, _)
SortCycleSwapFirst(data, indices, current_idx, fuel) ==
    LET target_idx == At(indices, current_idx)
        indices1 == [indices EXCEPT ![current_idx + 1] = current_idx]
        data1 == Swap(data, current_idx, target_idx)
    IN  IF At(indices1, target_idx) = target_idx
        THEN [data |-> data1, indices |-> indices1, diverged |-> FALSE]
        ELSE IF fuel = 0
        THEN [data |-> data1, indices |-> indices1, diverged |-> TRUE]
        ELSE SortCycleSwapFirst(data1, indices1, target_idx, fuel - 1)

\* The inner "loop" of sort_by_indices, entered with current_idx = idx.  The
\* loop has no bound in the source; fuel counts its swaps, and diverged
\* reports a run that needs more swaps than the slice has elements.
RECURSIVE SortCycle(_, _, _, _)
SortCycle(data, indices, current_idx, fuel) ==
    LET target_idx == At(indices, current_idx)
        indices1 == [indices EXCEPT ![current_idx + 1] = current_idx]
    IN  IF At(indices1, target_idx) = target_idx
        THEN [data |-> data, indices |-> indices1, diverged |-> FALSE]
        ELSE IF fuel = 0
        THEN [data |-> data, indices |-> indices1, diverged |-> TRUE]
        ELSE SortCycle(Swap(data, current_idx, target_idx), indices1,
                       target_idx, fuel - 1)

\* The outer "for idx in 0..data.len()" of sort_by_indices, from idx on.
RECURSIVE SortFrom(_, _)
SortFrom(st, idx) ==
    IF idx >= Len(st.data) \/ st.diverged THEN st
    ELSE IF At(st.indices, idx) # idx
    THEN SortFrom(SortCycle(st.data, st.indices, idx, Len(st.data)), idx + 1)
    ELSE SortFrom(st, idx + 1)

sort_by_indices(data, indices) ==
    SortFrom([data |-> data, indices |-> indices, diverged |-> FALSE], 0)

(***************************************************************************)
(* impl From<DirectedArenaTree> for DepthFirstArenaTree                    *)
(***************************************************************************)
\* indices.iter().position(|i| *i == x)
Position(indices, x) ==
    IF \E k \in 1..Len(indices) : indices[k] = x
    THEN Some((CHOOSE k \in 1..Len(indices) :
                  /\ indices[k] = x
                  /\ \A j \in 1..(k - 1) : indices[j] # x) - 1)
    ELSE None

\* Variant of update_child_indices: the node's own index is not rewritten.
update_child_indicesChildrenOnly(ns, indices) ==
    [k \in 1..Len(ns) |->
        LET node == ns[k] IN
        [node EXCEPT
            !.children = [c \in 1..Len(node.children) |->
                             Position(indices, node.children[c])[1]]]]

\* Variant of update_child_indices: the children lists are not rewritten.
update_child_indicesIndexOnly(ns, indices) ==
    [k \in 1..Len(ns) |->
        LET node == ns[k] IN
        [node EXCEPT !.index = Position(indices, node.index)[1]]]

\* DirectedArenaTree::update_child_indices: every child reference and every
\* node's own index is replaced by its position in indices.  parent_ref is
\* not touched.
update_child_indices(ns, indices) ==
    [k \in 1..Len(ns) |->
        LET node == ns[k] IN
        [node EXCEPT
            !.children = [c \in 1..Len(node.children) |->
                             Position(indices, node.children[c])[1]],
            !.index = Position(indices, node.index)[1]]]

\* One of the .expect("Internal error. Could not find index!") fails.
IndexNotFound(ns, indices) ==
    \E k \in 1..Len(ns) :
        \/ Position(indices, ns[k].index) = None
        \/ \E c \in 1..Len(ns[k].children) :
              Position(indices, ns[k].children[c]) = None

\* Variant of RebuildLookup: the id index is left as it was before the sort.
RebuildLookupSkipped(ns, lk) == lk

\* value.nodes.iter().for_each(|node| lookup.insert(node.id, node.index))
RECURSIVE RebuildLookup(_, _)
RebuildLookup(ns, lk) ==
    IF ns = <<>> THEN lk
    ELSE RebuildLookup(Tail(ns), Insert(lk, Head(ns).id, Head(ns).index))

\* From::from.  Indexing nodes[0] of an empty arena, a failed expect and an
\* index vector shorter than the arena panic.
From(ns, lk) ==
    IF ns = <<>>
    THEN [nodes |-> ns, lookup |-> lk, phase |-> "panicked", order |-> <<>>]
    ELSE
    LET visited == iter_depth(ns)
        optimal_order == [k \in 1..Len(visited) |-> At(ns, visited[k]).index]
    IN  IF IndexNotFound(ns, optimal_order) \/ Len(optimal_order) < Len(ns)
        THEN [nodes |-> ns, lookup |-> lk, phase |-> "panicked",
              order |-> optimal_order]
        ELSE
        LET sorted == sort_by_indices(update_child_indices(ns, optimal_order),
                                      optimal_order)
        IN  IF sorted.diverged
            THEN [nodes |-> sorted.data, lookup |-> lk, phase |-> "diverged",
                  order |-> optimal_order]
            ELSE [nodes |-> sorted.data,
                  lookup |-> RebuildLookup(sorted.data, lk),
                  phase |-> "depthfirst", order |-> optimal_order]

(***************************************************************************)
(* DepthFirstArenaTree                                                     *)
(***************************************************************************)
\* OptimizedDirectionIterable::iter: self.0.nodes.iter()
iter(ns) == ns

\* Variant of iter_sub: the slice ends at width instead of start + width.
iter_subToWidth(ns, node) == SubSeq(ns, node.index + 1, node.width)

\* DepthFirstIterable::iter_sub: self.0.nodes[start..start + width].iter()
iter_sub(ns, node) == SubSeq(ns, node.index + 1, node.index + node.width)

(***************************************************************************)
(* Rigid: the payload of a kinematic tree                                  *)
(***************************************************************************)
\* A segment: its link to the parent's frame, the dimension of one effector
\* and the number of effectors it carries.
Segment(link, dim, effector_count) ==
    [link |-> link, dim |-> dim, effector_count |-> effector_count]

\* Rigid::effector_size: self.dim() * self.effector_count()
effector_size(load) == load.dim * load.effector_count

\* Rigid::neutral_element and Rigid::concat: transformations are a monoid
\* that is not commutative (4x4 matrices under the product); here the free
\* monoid, the sequence of the local transformations that were composed.
neutral_element == <<>>
concat(first, second) == first \o second

\* Rigid::transform(params, index): the link, then the joint moved by
\* params[index].
transform(load, ps, index) == <<<<load.link, At(ps, index)>>>>

\* The distance a frame lies from the root frame: links and joint
\* displacements added up along the pose.
RECURSIVE Reach(_)
Reach(pose) ==
    IF pose = <<>> THEN 0 ELSE Head(pose)[1] + Head(pose)[2] + Reach(Tail(pose))

\* The effector sits one unit beyond the frame of its segment.
Tip(pose) == Reach(pose) + 1

\* Rigid::effector(pose, target_buffer, offset): the effector output, written
\* to target_buffer[offset .. offset + effector_size).
effector(load, pose, target_buffer, offset) ==
    [i \in 1..Len(target_buffer) |->
        IF offset < i /\ i <= offset + effector_size(load)
        THEN Tip(pose) + (i - offset - 1)
        ELSE target_buffer[i]]

\* Rigid::partial_derivative(pose, joint, joint_pose, target_buffer, offset):
\* the lever from the joint's frame to the effector, written to
\* target_buffer[offset .. offset + effector_size).
partial_derivative(load, pose, joint, joint_pose, target_buffer, offset) ==
    [i \in 1..Len(target_buffer) |->
        IF offset < i /\ i <= offset + effector_size(load)
        THEN Tip(pose) - Reach(joint_pose)
        ELSE target_buffer[i]]

(***************************************************************************)
(* Building a DepthFirstArenaTree of segments, as the callers do           *)
(***************************************************************************)
\* parents[k] is the rank of insertion of the parent of the k-th inserted
\* node; the first inserted node is the root.
ParentVectors(n) ==
    {p \in [1..n -> 0..(n - 1)] :
        /\ p[1] = 0
        /\ \A k \in 2..n : p[k] >= 1 /\ p[k] < k}

\* The id of the k-th of n inserted nodes: ids run against the arena
\* indices.
NodeIdOf(k, n) == n + 1 - k

\* The payload of the k-th inserted node: effector sizes 1, 2 and 0 in
\* turn, starting at shift.
SegmentOf(k, shift) ==
    LET s == (k + shift) % 3 IN
    Segment(k, IF s = 2 THEN 2 ELSE 1, IF s = 0 THEN 0 ELSE 1)

Shifts == {0, 1, 2}

\* tree.add(segment, id, &parent) for the k-th and all later nodes.
RECURSIVE Grow(_, _, _, _)
Grow(t, parents, shift, k) ==
    IF k > Len(parents) THEN t
    ELSE Grow(AddResult(t.nodes, t.lookup, SegmentOf(k, shift),
                        NodeIdOf(k, Len(parents)),
                        NodeIdOf(parents[k], Len(parents))),
              parents, shift, k + 1)

\* set_root and the adds: the DirectedArenaTree before tree.into().
BuildDirected(parents, shift) ==
    Grow(SetRootResult(<<>>, EmptyMap, SegmentOf(1, shift),
                       NodeIdOf(1, Len(parents))),
         parents, shift, 2)

\* set_root, the adds, and tree.into().
BuildTree(parents, shift) ==
    LET t == BuildDirected(parents, shift)
    IN  From(t.nodes, t.lookup)

(***************************************************************************)
(* TransformationAccumulation (forward.rs)                                 *)
(***************************************************************************)
\* with_capacity(42) in compute
max_depth == 42

\* Variant of PopWhile: the loop keeps one entry more than the node's depth.
RECURSIVE PopWhileKeepsOneMore(_, _)
PopWhileKeepsOneMore(stack, depth) ==
    IF depth + 1 < Len(stack) THEN PopWhileKeepsOneMore(ButLast(stack), depth)
    ELSE stack

\* Variant of PopWhile: a node above the top of the stack empties the stack.
PopWhilePopsAll(stack, depth) ==
    IF depth < Len(stack) THEN <<>> ELSE stack

\* while node.depth() < stack.len() { stack.pop(); }
RECURSIVE PopWhile(_, _)
PopWhile(stack, depth) ==
    IF depth < Len(stack) THEN PopWhile(ButLast(stack), depth) ELSE stack

\* The closure of the scan for the items from position index on: out
\* collects the emitted pairs <<node, accumulated transformation>>.
RECURSIVE AccumulateFrom(_, _, _, _, _)
AccumulateFrom(seq, ps, index, stack, out) ==
    IF index >= Len(seq) THEN out
    ELSE
    LET node == At(seq, index)
        popped == PopWhile(stack, node.depth)
        current == concat(IF popped = <<>> THEN neutral_element ELSE Last(popped),
                          transform(node.load, ps, index))
    IN  AccumulateFrom(seq, ps, index + 1, Append(popped, current),
                       Append(out, <<node, current>>))

\* TransformationAccumulation::accumulate over an iterator of nodes.
accumulate(seq, ps, capacity) == AccumulateFrom(seq, ps, 0, <<>>, <<>>)

\* The state of the iterator a scan returns: the position of the inner
\* iterator, the stack the closure owns, and the number of push and pop
\* calls so far; done once next() has returned None.
NewScan(kind) ==
    [kind |-> kind, index |-> 0, stack |-> <<>>, pushes |-> 0, pops |-> 0,
     done |-> FALSE]

\* One call of the closure of TransformationAccumulation::accumulate, for
\* the node at position index.
ScanStep(stack, node, ps, index) ==
    LET popped == PopWhile(stack, node.depth)
        current == concat(IF popped = <<>> THEN neutral_element ELSE Last(popped),
                          transform(node.load, ps, index))
    IN  [stack |-> Append(popped, current), item |-> <<node, current>>,
         pops |-> Len(stack) - Len(popped)]

(***************************************************************************)
(* DepthFirstAccumulation (arena/depth.rs): the accumulator that takes the *)
(* combining closure                                                       *)
(***************************************************************************)
\* Vec::pop: an empty vector stays empty.
Pop(stack) == IF stack = <<>> THEN stack ELSE ButLast(stack)

\* let depth = stack.len(); while node.depth() < depth { stack.pop(); }
\* depth is read once, before the loop.  The loop has no bound in the
\* source; fuel counts its pops, and diverged reports a run that pops more
\* often than the stack had entries.
RECURSIVE PopWhileDepth(_, _, _, _)
PopWhileDepth(stack, node_depth, depth, fuel) ==
    IF node_depth < depth
    THEN IF fuel = 0 THEN [stack |-> stack, diverged |-> TRUE]
         ELSE PopWhileDepth(Pop(stack), node_depth, depth, fuel - 1)
    ELSE [stack |-> stack, diverged |-> FALSE]

\* The combining closure acc(node, param, parent's value) of the callers:
\* the parent's pose, then the node's local transformation.
Combine(node, param, accumulated) ==
    concat(accumulated, transform(node.load, <<param>>, 0))

\* One call of the closure of DepthFirstAccumulation::accumulate.
AccumulationStep(stack, node, param, first) ==
    LET loop == PopWhileDepth(stack, node.depth, Len(stack), Len(stack) + 1)
        result == Combine(node, param,
                          IF loop.stack = <<>> THEN first ELSE Last(loop.stack))
    IN  [stack |-> Append(loop.stack, result), item |-> <<node, result>>,
         pops |-> Len(stack) - Len(loop.stack), diverged |-> loop.diverged]

(***************************************************************************)
(* DifferentiableModel (differentiable.rs)                                 *)
(***************************************************************************)
\* Variant of HashSetOf: only the first id of the slice is kept.
HashSetOfFirst(ids) == IF ids = <<>> THEN {} ELSE {ids[1]}

\* HashSet::from_iter over a slice of ids
HashSetOf(ids) == {ids[k] : k \in 1..Len(ids)}

\* Vec::resize(new_len, value)
Resize(v, new_len, value) ==
    IF new_len <= Len(v) THEN SubSeq(v, 1, new_len)
    ELSE v \o [k \in 1..(new_len - Len(v)) |-> value]

\* DifferentiableModel::new(): Default::default()
NewModel ==
    [matrix |-> <<>>, configuration |-> <<>>, rows |-> 0, cols |-> 0,
     offsets |-> <<>>, sizes |-> <<>>,
     selected_joints |-> <<>>, selected_effectors |-> <<>>]

\* The scan that yields the offsets: the running sum before each node.
RECURSIVE OffsetScan(_, _, _)
OffsetScan(seq, effectors, offset) ==
    IF seq = <<>> THEN <<>>
    ELSE <<offset>> \o
         OffsetScan(Tail(seq), effectors,
                    IF Head(seq).id \in effectors
                    THEN offset + effector_size(Head(seq).load) ELSE offset)

\* Iterator::sum over the effector sizes of the selected effectors.
RECURSIVE RowSum(_, _)
RowSum(seq, effectors) ==
    IF seq = <<>> THEN 0
    ELSE (IF Head(seq).id \in effectors THEN effector_size(Head(seq).load) ELSE 0)
         + RowSum(Tail(seq), effectors)

\* flags.iter().filter(|&selected| *selected).count()
CountSelected(flags) == Cardinality({k \in 1..Len(flags) : flags[k]})

\* Variant of SetupResult: the buffers are resized without being cleared.
SetupResultNoClear(m, ns, selected_joints, selected_effectors) ==
    LET effectors == HashSetOf(selected_effectors)
        joints == HashSetOf(selected_joints)
        flags_e == [k \in 1..Len(ns) |-> ns[k].id \in effectors]
        flags_j == IF selected_joints = <<>>
                   THEN [k \in 1..Len(ns) |-> TRUE]
                   ELSE [k \in 1..Len(ns) |-> ns[k].id \in joints]
        rows == RowSum(iter(ns), effectors)
        cols == CountSelected(flags_j)
    IN  [matrix |-> Resize(m.matrix, rows * cols, 0),
         configuration |-> Resize(m.configuration, rows, 0),
         rows |-> rows, cols |-> cols,
         offsets |-> OffsetScan(iter(ns), effectors, 0),
         sizes |-> [k \in 1..Len(ns) |-> effector_size(ns[k].load)],
         selected_joints |-> flags_j, selected_effectors |-> flags_e]

\* Variant of SetupResult: every id of the joint list counts as a column,
\* whether a node carries it or not.
SetupResultCountsIds(m, ns, selected_joints, selected_effectors) ==
    LET effectors == HashSetOf(selected_effectors)
        joints == HashSetOf(selected_joints)
        flags_e == [k \in 1..Len(ns) |-> ns[k].id \in effectors]
        flags_j == IF selected_joints = <<>>
                   THEN [k \in 1..Len(ns) |-> TRUE]
                   ELSE [k \in 1..Len(ns) |-> ns[k].id \in joints]
        rows == RowSum(iter(ns), effectors)
        cols == IF selected_joints = <<>> THEN Len(ns) ELSE Cardinality(joints)
    IN  [matrix |-> Resize(<<>>, rows * cols, 0),
         configuration |-> Resize(<<>>, rows, 0),
         rows |-> rows, cols |-> cols,
         offsets |-> OffsetScan(iter(ns), effectors, 0),
         sizes |-> [k \in 1..Len(ns) |-> effector_size(ns[k].load)],
         selected_joints |-> flags_j, selected_effectors |-> flags_e]

\* Variant of SetupResult: an empty joint list selects no joint, like an
\* empty effector list.
SetupResultEmptySelectsNone(m, ns, selected_joints, selected_effectors) ==
    LET effectors == HashSetOf(selected_effectors)
        joints == HashSetOf(selected_joints)
        flags_e == [k \in 1..Len(ns) |-> ns[k].id \in effectors]
        flags_j == [k \in 1..Len(ns) |-> ns[k].id \in joints]
        rows == RowSum(iter(ns), effectors)
        cols == CountSelected(flags_j)
    IN  [matrix |-> Resize(<<>>, rows * cols, 0),
         configuration |-> Resize(<<>>, rows, 0),
         rows |-> rows, cols |-> cols,
         offsets |-> OffsetScan(iter(ns), effectors, 0),
         sizes |-> [k \in 1..Len(ns) |-> effector_size(ns[k].load)],
         selected_joints |-> flags_j, selected_effectors |-> flags_e]

\* DifferentiableModel::setup as a function of the model, the tree and the
\* two id slices.
SetupResult(m, ns, selected_joints, selected_effectors) ==
    LET effectors == HashSetOf(selected_effectors)
        joints == HashSetOf(selected_joints)
        flags_e == [k \in 1..Len(ns) |-> ns[k].id \in effectors]
        flags_j == IF selected_joints = <<>>
                   THEN [k \in 1..Len(ns) |-> TRUE]
                   ELSE [k \in 1..Len(ns) |-> ns[k].id \in joints]
        rows == RowSum(iter(ns), effectors)
        cols == CountSelected(flags_j)
    IN  [matrix |-> Resize(<<>>, rows * cols, 0),
         configuration |-> Resize(<<>>, rows, 0),
         rows |-> rows, cols |-> cols,
         offsets |-> OffsetScan(iter(ns), effectors, 0),
         sizes |-> [k \in 1..Len(ns) |-> effector_size(ns[k].load)],
         selected_joints |-> flags_j, selected_effectors |-> flags_e]

\* DifferentiableModel::effectors: the slice of each selected effector.
RECURSIVE EffectorSlices(_, _)
EffectorSlices(m, k) ==
    IF k > Len(m.selected_effectors) \/ k > Len(m.offsets) \/ k > Len(m.sizes)
    THEN <<>>
    ELSE (IF m.selected_effectors[k]
          THEN <<SubSeq(m.configuration, m.offsets[k] + 1,
                        m.offsets[k] + m.sizes[k])>>
          ELSE <<>>)
         \o EffectorSlices(m, k + 1)

effectors(m) == EffectorSlices(m, 1)
flat_effectors(m) == m.configuration
jacobian(m) == m.matrix
active(m) == m.selected_joints

\* The effectors part of compute: the nodes from the k-th on.
RECURSIVE WriteEffectors(_, _, _, _)
WriteEffectors(m, nodes_trafos, k, configuration) ==
    IF k > Len(nodes_trafos) \/ k > Len(m.selected_effectors)
       \/ k > Len(m.offsets)
    THEN configuration
    ELSE WriteEffectors(m, nodes_trafos, k + 1,
            IF m.selected_effectors[k]
            THEN effector(nodes_trafos[k][1].load, nodes_trafos[k][2],
                          configuration, m.offsets[k])
            ELSE configuration)

\* The smaller of two lengths: zip ends with its shortest iterator.
Shortest(a, b) == IF a <= b THEN a ELSE b

\* Variant of JacobianColumn: the walk runs to the end of the tree instead
\* of the end of the joint's subtree.
RECURSIVE JacobianColumnToEnd(_, _, _, _, _, _)
JacobianColumnToEnd(col, ns, m, nodes_trafos, idx, t) ==
    LET joint_node == nodes_trafos[idx + 1][1]
        joint_pose == nodes_trafos[idx + 1][2]
        sub == SubSeq(ns, joint_node.index + 1, Len(ns))
    IN  IF t > Shortest(Len(sub), Len(nodes_trafos) - idx) THEN col
        ELSE JacobianColumnToEnd(
                IF m.selected_effectors[idx + t]
                THEN partial_derivative(sub[t].load, nodes_trafos[idx + t][2],
                                        joint_node.load, joint_pose, col,
                                        m.offsets[idx + t])
                ELSE col,
                ns, m, nodes_trafos, idx, t + 1)

\* One column of the Jacobian: the joint is the node at position idx; the
\* t-th node of tree.iter_sub(joint_node) is zipped with the trafo, offset
\* and effector flag at position idx + t - 1.
RECURSIVE JacobianColumn(_, _, _, _, _, _)
JacobianColumn(col, ns, m, nodes_trafos, idx, t) ==
    LET joint_node == nodes_trafos[idx + 1][1]
        joint_pose == nodes_trafos[idx + 1][2]
        sub == iter_sub(ns, joint_node)
    IN  IF t > Shortest(Len(sub), Len(nodes_trafos) - idx) THEN col
        ELSE JacobianColumn(
                IF m.selected_effectors[idx + t]
                THEN partial_derivative(sub[t].load, nodes_trafos[idx + t][2],
                                        joint_node.load, joint_pose, col,
                                        m.offsets[idx + t])
                ELSE col,
                ns, m, nodes_trafos, idx, t + 1)

\* The positions of the selected joints, in storage order.
RECURSIVE SelectedPositions(_, _)
SelectedPositions(flags, k) ==
    IF k > Len(flags) THEN <<>>
    ELSE (IF flags[k] THEN <<k - 1>> ELSE <<>>) \o SelectedPositions(flags, k + 1)

\* matrix.chunks_mut(rows).zip(selected joints): the chunks from the c-th
\* on, each filled for its joint; chunks without a joint stay as they are.
RECURSIVE FillChunks(_, _, _, _, _)
FillChunks(ns, m, nodes_trafos, joints, c) ==
    IF c * m.rows >= Len(m.matrix) THEN <<>>
    ELSE LET col == SubSeq(m.matrix, c * m.rows + 1,
                           Shortest((c + 1) * m.rows, Len(m.matrix)))
         IN  (IF c < Len(joints)
              THEN JacobianColumn(col, ns, m, nodes_trafos, At(joints, c), 1)
              ELSE col)
             \o FillChunks(ns, m, nodes_trafos, joints, c + 1)

\* Variant of ComputeResult: the effectors are written in every mode.
ComputeResultAlwaysEffectors(m, ns, ps, selection) ==
    LET nodes_trafos == accumulate(iter(ns), ps, max_depth)
        m1 == [m EXCEPT !.configuration =
                  WriteEffectors(m, nodes_trafos, 1, m.configuration)]
    IN  IF selection \in {"JacobianOnly", "All"}
        THEN IF m1.rows = 0
             THEN [model |-> m1, panicked |-> TRUE]
             ELSE [model |-> [m1 EXCEPT !.matrix =
                                FillChunks(ns, m1, nodes_trafos,
                                           SelectedPositions(m1.selected_joints, 1), 0)],
                   panicked |-> FALSE]
        ELSE [model |-> m1, panicked |-> FALSE]

\* DifferentiableModel::compute as a function of the model, the tree, the
\* parameters and the selection.  chunks_mut(0) panics.
ComputeResult(m, ns, ps, selection) ==
    LET nodes_trafos == accumulate(iter(ns), ps, max_depth)
        m1 == IF selection \in {"EffectorsOnly", "All"}
              THEN [m EXCEPT !.configuration =
                       WriteEffectors(m, nodes_trafos, 1, m.configuration)]
              ELSE m
    IN  IF selection \in {"JacobianOnly", "All"}
        THEN IF m1.rows = 0
             THEN [model |-> m1, panicked |-> TRUE]
             ELSE [model |-> [m1 EXCEPT !.matrix =
                                FillChunks(ns, m1, nodes_trafos,
                                           SelectedPositions(m1.selected_joints, 1), 0)],
                   panicked |-> FALSE]
        ELSE [model |-> m1, panicked |-> FALSE]

(***************************************************************************)
(* DifferentialInverseModel (inverse.rs)                                   *)
(***************************************************************************)
\* DifferentialInverseModel::new and the locals of solve.  measured lists
\* the error each pass through the loop body has computed, and before is
\* the parameter slice as the last pass found it.
InverseModel(max_iterations_count, min_error, scale_difference) ==
    [max_iterations_count |-> max_iterations_count, min_error |-> min_error,
     scale_difference |-> scale_difference,
     pc |-> "new", targets |-> <<>>, counter |-> 0, error |-> 0,
     result |-> <<>>, info |-> None, measured |-> <<>>, before |-> <<>>]

\* izip!(targets, flat_effectors).map(|(x, y)| x - y)
Difference(targets, configuration) ==
    [i \in 1..Shortest(Len(targets), Len(configuration)) |->
        targets[i] - configuration[i]]

\* diff.iter().map(|x| x * x).sum()
RECURSIVE SquaredSum(_)
SquaredSum(diff) ==
    IF diff = <<>> THEN 0 ELSE Head(diff) * Head(diff) + SquaredSum(Tail(diff))

\* Variant of ApplyUpdate: the k-th entry of the update goes to the k-th
\* parameter.
ApplyUpdateByPosition(ps, flags, result, k) ==
    [i \in 1..Len(ps) |-> IF i <= Len(result) THEN ps[i] + result[i] ELSE ps[i]]

\* izip!(params.iter_mut(), active).filter(|(_, a)| **a).zip(result)
\*     .for_each(|((p, _), r)| *p = *p + *r): the parameters from the k-th
\* on; result holds the entries not yet used.
RECURSIVE ApplyUpdate(_, _, _, _)
ApplyUpdate(ps, flags, result, k) ==
    IF k > Len(ps) \/ k > Len(flags) \/ result = <<>> THEN ps
    ELSE IF flags[k]
    THEN ApplyUpdate([ps EXCEPT ![k] = @ + Head(result)], flags, Tail(result), k + 1)
    ELSE ApplyUpdate(ps, flags, result, k + 1)

\* Variant of NextCounter: the counter is advanced before the error is
\* compared with min_error.
NextCounterBeforeBreak(stop, counter) == counter + 1

\* if error < self.min_error { break; } counter += 1;
NextCounter(stop, counter) == IF stop THEN counter ELSE counter + 1

\* Variant of LoopEnds: the cap is compared with > instead of >=.
LoopEndsLate(stop, counter, max_iterations_count) ==
    stop \/ counter > max_iterations_count

\* The two breaks: error < self.min_error, and, after counter += 1,
\* counter >= self.max_iterations_count.
LoopEnds(stop, counter, max_iterations_count) ==
    stop \/ counter >= max_iterations_count

\* What RB::solve_linear may leave in the target buffer of cols entries:
\* the linear solver is a collaborator outside this crate.
Updates(cols) == {[k \in 1..cols |-> 0], [k \in 1..cols |-> k]}

(***************************************************************************)
(* Actions                                                                 *)
(***************************************************************************)
\* No kinematics in use.
KinIdle ==
    /\ params = <<>>
    /\ sel = [joints |-> <<>>, effectors |-> <<>>]
    /\ trafos = <<>>
    /\ model = NewModel
    /\ ik = InverseModel(0, 0, 1)
    /\ scan = NewScan("none")

Init ==
    /\ nodes = <<>>
    /\ lookup = EmptyMap
    /\ phase = "directed"
    /\ ret = <<"none", 0>>
    /\ order = <<>>
    /\ sdata = <<>>
    /\ sindices = <<>>
    /\ sout = <<>>
    /\ spc = "idle"
    /\ KinIdle

add(load, node_ref, parent) ==
    /\ phase = "directed"
    /\ LET r == AddResult(nodes, lookup, load, node_ref, parent) IN
        /\ Len(r.nodes) <= MaxNodes
        /\ nodes' = r.nodes
        /\ lookup' = r.lookup
        /\ ret' = r.ret
    /\ UNCHANGED <<phase, order, sortVars, kinVars>>

set_root(root_load, root_ref) ==
    /\ phase = "directed"
    /\ LET r == SetRootResult(nodes, lookup, root_load, root_ref) IN
        /\ nodes' = r.nodes
        /\ lookup' = r.lookup
        /\ ret' = r.ret
    /\ UNCHANGED <<phase, order, sortVars, kinVars>>

\* tree.into() / depth_first(): consumes the DirectedArenaTree.
Convert ==
    /\ phase = "directed"
    /\ LET r == From(nodes, lookup) IN
        /\ nodes' = r.nodes
        /\ lookup' = r.lookup
        /\ phase' = r.phase
        /\ order' = r.order
    /\ ret' = <<"from", 0>>
    /\ UNCHANGED <<sortVars, kinVars>>

Add == \E load \in Loads, node_ref \in Ids, parent \in Ids : add(load, node_ref, parent)

SetRoot == \E root_load \in Loads, root_ref \in Ids : set_root(root_load, root_ref)

Next == Add \/ SetRoot \/ Convert

Spec == Init /\ [][Next]_vars

(***************************************************************************)
(* sort_by_indices on its own: any slice, any permutation of its indices   *)
(***************************************************************************)
IndexPermutations(n) ==
    {p \in [1..n -> 0..(n - 1)] : \A i, j \in 1..n : p[i] = p[j] => i = j}

InitSort ==
    /\ nodes = <<>>
    /\ lookup = EmptyMap
    /\ phase = "directed"
    /\ ret = <<"none", 0>>
    /\ order = <<>>
    /\ sdata \in UNION {[1..n -> Values] : n \in 0..MaxLen}
    /\ sindices \in IndexPermutations(Len(sdata))
    /\ sout = <<>>
    /\ spc = "ready"
    /\ KinIdle

SortCall ==
    /\ spc = "ready"
    /\ LET r == sort_by_indices(sdata, sindices) IN
        /\ sout' = r.data
        /\ spc' = IF r.diverged THEN "diverged" ELSE "done"
    /\ UNCHANGED <<sdata, sindices, treeVars, kinVars>>

NextSort == SortCall

SpecSort == InitSort /\ [][NextSort]_vars

(***************************************************************************)
(* accumulate on its own: every tree of up to MaxNodes segments, every     *)
(* parameter slice over {0, 1}                                             *)
(***************************************************************************)
\* The converted trees of up to n segments.
TreeChoices(n) ==
    {<<p, shift>> : p \in UNION {ParentVectors(m) : m \in 1..n}, shift \in Shifts}

\* The state holds the DepthFirstArenaTree BuildTree(choice) returned.
HoldsTree(choice) ==
    LET t == BuildTree(choice[1], choice[2]) IN
    /\ nodes = t.nodes
    /\ lookup = t.lookup
    /\ phase = t.phase
    /\ order = t.order
    /\ ret = <<"none", 0>>

SortIdle ==
    /\ sdata = <<>>
    /\ sindices = <<>>
    /\ sout = <<>>
    /\ spc = "idle"

InitFK ==
    /\ \E choice \in TreeChoices(MaxNodes) : choice[2] = 0 /\ HoldsTree(choice)
    /\ SortIdle
    /\ params \in [1..Len(nodes) -> {0, 1}]
    /\ sel = [joints |-> <<>>, effectors |-> <<>>]
    /\ trafos = <<>>
    /\ model = NewModel
    /\ ik = InverseModel(0, 0, 1)
    /\ scan = NewScan("none")

\* tree.iter().accumulate(params, max_depth).collect()
Accumulate ==
    /\ phase = "depthfirst"
    /\ ret = <<"none", 0>>
    /\ trafos' = accumulate(iter(nodes), params, max_depth)
    /\ ret' = <<"accumulate", 0>>
    /\ UNCHANGED <<nodes, lookup, phase, order, sortVars, params, sel, model, ik, scan>>

NextFK == Accumulate

SpecFK == InitFK /\ [][NextFK]_vars

(***************************************************************************)
(* The accumulating iterators advanced item by item: every tree of up to   *)
(* MaxNodes segments, every parameter slice over {0, 1}                    *)
(***************************************************************************)
InitScan ==
    /\ \E choice \in TreeChoices(MaxNodes) : choice[2] = 0 /\ HoldsTree(choice)
    /\ SortIdle
    /\ params \in [1..Len(nodes) -> {0, 1}]
    /\ sel = [joints |-> <<>>, effectors |-> <<>>]
    /\ trafos = <<>>
    /\ model = NewModel
    /\ ik = InverseModel(0, 0, 1)
    /\ scan \in {NewScan("rigid"), NewScan("generic")}

\* next() on tree.iter().accumulate(params, max_depth) of forward.rs.
rigid_next ==
    /\ phase = "depthfirst"
    /\ scan.kind = "rigid"
    /\ ~scan.done
    /\ IF scan.index >= Len(iter(nodes))
       THEN /\ scan' = [scan EXCEPT !.done = TRUE]
            /\ ret' = <<"next", None>>
            /\ UNCHANGED trafos
       ELSE LET r == ScanStep(scan.stack, At(iter(nodes), scan.index), params,
                              scan.index)
            IN  /\ scan' = [scan EXCEPT !.index = @ + 1, !.stack = r.stack,
                                        !.pushes = @ + 1, !.pops = @ + r.pops]
                /\ trafos' = Append(trafos, r.item)
                /\ ret' = <<"next", Some(scan.index)>>
    /\ UNCHANGED <<nodes, lookup, phase, order, sortVars, params, sel, model, ik>>

\* next() on tree.iter().accumulate(params, acc, first, max_depth) of
\* arena/depth.rs, with first the neutral element.
generic_next ==
    /\ phase = "depthfirst"
    /\ scan.kind = "generic"
    /\ ~scan.done
    /\ IF scan.index >= Len(iter(nodes)) \/ scan.index >= Len(params)
       THEN /\ scan' = [scan EXCEPT !.done = TRUE]
            /\ ret' = <<"next", None>>
            /\ UNCHANGED <<trafos, phase>>
       ELSE LET r == AccumulationStep(scan.stack, At(iter(nodes), scan.index),
                                      At(params, scan.index), neutral_element)
            IN  IF r.diverged
                THEN /\ phase' = "diverged"
                     /\ scan' = [scan EXCEPT !.stack = r.stack,
                                             !.pops = @ + r.pops]
                     /\ UNCHANGED <<trafos, ret>>
                ELSE /\ scan' = [scan EXCEPT !.index = @ + 1, !.stack = r.stack,
                                             !.pushes = @ + 1, !.pops = @ + r.pops]
                     /\ trafos' = Append(trafos, r.item)
                     /\ ret' = <<"next", Some(scan.index)>>
                     /\ UNCHANGED phase
    /\ UNCHANGED <<nodes, lookup, order, sortVars, params, sel, model, ik>>

NextScan == rigid_next \/ generic_next

SpecScan == InitScan /\ [][NextScan]_vars

(***************************************************************************)
(* DifferentiableModel: every tree of up to MaxBodies segments, id lists   *)
(* of up to two ids                                                        *)
(***************************************************************************)
BodyIds == 1..MaxBodies

\* The id slices of length 0, 1 and 2.
ShortLists(ids) ==
    {<<>>} \cup {<<a>> : a \in ids} \cup {<<a, b>> : a, b \in ids}

\* The id slices of length 0 and 1, and the ascending ones of length 2.
AscendingLists(ids) ==
    {<<>>} \cup {<<a>> : a \in ids}
    \cup {q \in ids \X ids : q[1] < q[2]}

\* The parameter slices the caller starts from.
StartParams(n) == {[k \in 1..n |-> 0], [k \in 1..n |-> k]}

ComputeSelection == {"EffectorsOnly", "JacobianOnly", "All"}

InitDiff ==
    /\ \E choice \in TreeChoices(MaxBodies) : HoldsTree(choice)
    /\ SortIdle
    /\ params \in StartParams(Len(nodes))
    /\ sel \in [joints : ShortLists(BodyIds), effectors : ShortLists(BodyIds)]
    /\ trafos = <<>>
    /\ model = NewModel
    /\ ik = InverseModel(0, 0, 1)
    /\ scan = NewScan("none")

\* A buffer of the model holds an entry that is not zero.
HasEntries(m) ==
    \/ \E i \in 1..Len(m.matrix) : m.matrix[i] # 0
    \/ \E i \in 1..Len(m.configuration) : m.configuration[i] # 0

\* model.setup(&tree, &joints, &effectors); ret records whether the buffers
\* held entries when setup was called.
setup ==
    /\ phase = "depthfirst"
    /\ ik.pc = "new"
    /\ model' = SetupResult(model, nodes, sel.joints, sel.effectors)
    /\ ret' = <<"setup", IF HasEntries(model) THEN 1 ELSE 0>>
    /\ UNCHANGED <<nodes, lookup, phase, order, sortVars, params, sel, trafos, ik, scan>>

\* model.compute(&tree, &params, selection) on a model that was set up
compute(selection) ==
    /\ phase = "depthfirst"
    /\ ik.pc = "new"
    /\ ret[1] \in {"setup", "compute"}
    /\ LET r == ComputeResult(model, nodes, params, selection) IN
        /\ model' = r.model
        /\ phase' = IF r.panicked THEN "panicked" ELSE phase
    /\ ret' = <<"compute", selection>>
    /\ UNCHANGED <<nodes, lookup, order, sortVars, params, sel, trafos, ik, scan>>

Compute == \E selection \in ComputeSelection : compute(selection)

NextDiff == setup \/ Compute

SpecDiff == InitDiff /\ [][NextDiff]_vars

(***************************************************************************)
(* DifferentialInverseModel: solve, one pass through its loop per step     *)
(***************************************************************************)
MinErrors == {0, 1}
TargetValues == {2, 3}

InitIK ==
    /\ \E choice \in TreeChoices(MaxBodies) : choice[2] = 0 /\ HoldsTree(choice)
    /\ SortIdle
    /\ params = [k \in 1..Len(nodes) |-> 0]
    /\ sel \in [joints : AscendingLists(BodyIds),
                effectors : {<<>>} \cup {<<a>> : a \in BodyIds}]
    /\ trafos = <<>>
    /\ model = NewModel
    /\ \E max_iterations_count \in 0..MaxIterations, min_error \in MinErrors :
          ik = InverseModel(max_iterations_count, min_error, 1)
    /\ scan = NewScan("none")

\* ik.setup(&tree, &joints, &effectors)
ik_setup ==
    /\ phase = "depthfirst"
    /\ ik.pc = "new"
    /\ ret = <<"none", 0>>
    /\ model' = SetupResult(model, nodes, sel.joints, sel.effectors)
    /\ ik' = [ik EXCEPT !.pc = "ready"]
    /\ ret' = <<"setup", 0>>
    /\ UNCHANGED <<nodes, lookup, phase, order, sortVars, params, sel, trafos, scan>>

\* solve(&tree, &mut params, &targets) up to the loop: counter and the
\* result buffer.
solve_enter(targets) ==
    /\ phase = "depthfirst"
    /\ ik.pc = "ready"
    /\ ik' = [ik EXCEPT !.pc = "loop", !.targets = targets, !.counter = 0,
                        !.measured = <<>>,
                        !.result = [k \in 1..CountSelected(active(model)) |-> 0],
                        !.before = params]
    /\ ret' = <<"solve", 0>>
    /\ UNCHANGED <<nodes, lookup, phase, order, sortVars, params, sel, trafos, model, scan>>

\* One pass through the loop of solve, with update what solve_linear left
\* in the result buffer; a break ends solve with its DiffIKInfo.
solve_pass(update) ==
    /\ phase = "depthfirst"
    /\ ik.pc = "loop"
    /\ LET r == ComputeResult(model, nodes, params, "All") IN
        IF r.panicked
        THEN /\ model' = r.model
             /\ phase' = "panicked"
             /\ ik' = [ik EXCEPT !.pc = "panicked", !.before = params]
             /\ UNCHANGED params
        ELSE
        LET diff == Difference(ik.targets, flat_effectors(r.model))
            error == SquaredSum(diff)
            scaled == [i \in 1..Len(diff) |-> diff[i] * ik.scale_difference]
            stop == error < ik.min_error
            counter == NextCounter(stop, ik.counter)
            done == LoopEnds(stop, counter, ik.max_iterations_count)
        IN  /\ model' = r.model
            /\ UNCHANGED phase
            /\ params' = ApplyUpdate(params, active(r.model), update, 1)
            /\ ik' = [ik EXCEPT
                        !.error = error, !.result = update,
                        !.counter = counter,
                        !.measured = Append(@, error),
                        !.before = params,
                        !.pc = IF done THEN "returned" ELSE "loop",
                        !.info = IF done
                                 THEN Some([iteration_count |-> counter,
                                            squared_error |-> error])
                                 ELSE None]
    /\ ret' = <<"solve", Len(ik.measured) + 1>>
    /\ UNCHANGED <<nodes, lookup, order, sortVars, sel, trafos, scan>>

SolveEnter ==
    \E v \in TargetValues : solve_enter([i \in 1..model.rows |-> v])

SolvePass == \E update \in Updates(Len(ik.result)) : solve_pass(update)

NextIK == ik_setup \/ SolveEnter \/ SolvePass

SpecIK == InitIK /\ [][NextIK]_vars

(***************************************************************************)
(* The conversion on its own: every tree of up to MaxGrown segments        *)
(***************************************************************************)
InitFrom ==
    /\ \E choice \in TreeChoices(MaxGrown) :
          LET t == BuildDirected(choice[1], choice[2]) IN
          /\ nodes = t.nodes
          /\ lookup = t.lookup
    /\ phase = "directed"
    /\ ret = <<"none", 0>>
    /\ order = <<>>
    /\ SortIdle
    /\ KinIdle

NextFrom == Convert

SpecFrom == InitFrom /\ [][NextFrom]_vars

(***************************************************************************)
(* Vocabulary of the properties: the tree that the children lists describe *)
(***************************************************************************)
\* The arena positions the children list of the node at position i names.
ChildSet(ns, i) == {At(ns, i).children[c] : c \in 1..Len(At(ns, i).children)}

\* The positions whose children list contains position j.
ParentsOf(ns, j) == {i \in 0..(Len(ns) - 1) : j \in ChildSet(ns, i)}

\* Position i and all its descendants.
RECURSIVE SubtreeSet(_, _)
SubtreeSet(ns, i) == {i} \cup UNION {SubtreeSet(ns, c) : c \in ChildSet(ns, i)}

\* Pre-order walk from position i, children in list order.
RECURSIVE PreOrder(_, _)
RECURSIVE PreOrderOfAll(_, _)
PreOrder(ns, i) == <<i>> \o PreOrderOfAll(ns, At(ns, i).children)
PreOrderOfAll(ns, cs) ==
    IF cs = <<>> THEN <<>>
    ELSE PreOrder(ns, Head(cs)) \o PreOrderOfAll(ns, Tail(cs))

\* Sum of the widths of the nodes at the positions in cs.
RECURSIVE SumWidths(_, _)
SumWidths(ns, cs) ==
    IF cs = <<>> THEN 0 ELSE At(ns, Head(cs)).width + SumWidths(ns, Tail(cs))

\* The ids of a sequence of nodes, and of the nodes at a sequence of positions.
IdsOf(seq) == [k \in 1..Len(seq) |-> seq[k].id]
IdsAt(ns, ps) == [k \in 1..Len(ps) |-> At(ns, ps[k]).id]

\* The node of ns that carries id.
NodeWithId(ns, id) == ns[CHOOSE k \in 1..Len(ns) : ns[k].id = id]

Identity(n) == [k \in 1..n |-> k - 1]

(***************************************************************************)
(* Properties                                                              *)
(***************************************************************************)
\* C1: for every tree built by set_root and add, converting it succeeds and
\* for every node n iter_sub(n) on the converted tree yields n followed by
\* all of n's descendants, in the pre-order of the tree as it was built; on
\* every converted tree the slice [n.index, n.index + n.width) holds exactly
\* n's subtree, in pre-order.
C1_IterSubIsSubtree ==
    /\ (phase = "directed" /\ nodes # <<>>) =>
          LET t == From(nodes, lookup) IN
          /\ t.phase = "depthfirst"
          /\ \A k \in 1..Len(nodes) :
                IdsOf(iter_sub(t.nodes, NodeWithId(t.nodes, nodes[k].id)))
                    = IdsAt(nodes, PreOrder(nodes, k - 1))
    /\ phase = "depthfirst" =>
          \A k \in 1..Len(nodes) :
              LET n == nodes[k] IN
              /\ IdsOf(iter_sub(nodes, n)) = IdsAt(nodes, PreOrder(nodes, n.index))
              /\ {n.index + d : d \in 0..(n.width - 1)} = SubtreeSet(nodes, n.index)
              /\ n.id = nodes[n.index + 1].id

\* C1 witness: a converted tree whose storage order was changed and that
\* holds a proper subtree of more than one node.
C1_Witness ==
    /\ phase = "depthfirst"
    /\ order # Identity(Len(nodes))
    /\ \E k \in 2..Len(nodes) : nodes[k].width >= 2

\* C2: in a DirectedArenaTree every stored node's width is the number of
\* stored nodes in its subtree and is one more than the sum of its
\* children's widths; the root's width is the number of stored nodes.
C2_WidthIsSubtreeSize ==
    (phase = "directed" /\ nodes # <<>>) =>
        /\ \A k \in 1..Len(nodes) :
              /\ nodes[k].width = Cardinality(SubtreeSet(nodes, k - 1))
              /\ nodes[k].width = 1 + SumWidths(nodes, nodes[k].children)
        /\ nodes[1].width = Len(nodes)

\* C2 witness: a successful add below a node that has a grandparent.
C2_Witness ==
    /\ phase = "directed"
    /\ ret[1] = "Ok"
    /\ Len(nodes) >= 4
    /\ Last(nodes).depth >= 2
    /\ nodes[1].width = Len(nodes)

\* C3: in a DirectedArenaTree the root has depth 0 and every other stored
\* node has exactly one parent, whose depth is one less than its own.
C3_DepthIsParentDepthPlusOne ==
    (phase = "directed" /\ nodes # <<>>) =>
        /\ nodes[1].depth = 0
        /\ \A j \in 1..(Len(nodes) - 1) :
              /\ Cardinality(ParentsOf(nodes, j)) = 1
              /\ \A i \in ParentsOf(nodes, j) :
                    At(nodes, j).depth = At(nodes, i).depth + 1

\* C3 witness: a tree with nodes at depth 0, 1 and 2.
C3_Witness ==
    /\ phase = "directed"
    /\ \E k \in 1..Len(nodes) : nodes[k].depth = 2
    /\ \E k \in 1..Len(nodes) : nodes[k].depth = 1

\* C4: in every tree, add with a parent id that node_by_id resolves and an
\* id that a stored node already carries returns NotUnique(id) and leaves
\* nodes and the id index as they were; an id that add has just rejected as
\* NotUnique is carried by a stored node.
C4_DuplicateIdLeavesTree ==
    phase = "directed" =>
        /\ \A load \in Loads, node_ref \in Ids, parent \in Ids :
              (node_by_id(nodes, lookup, parent) # None /\ IdInUse(nodes, node_ref))
              => AddResult(nodes, lookup, load, node_ref, parent)
                    = [nodes |-> nodes, lookup |-> lookup,
                       ret |-> <<"NotUnique", node_ref>>]
        /\ ret[1] = "NotUnique" => IdInUse(nodes, ret[2])

\* C4 witness: a duplicate id was rejected on a tree in which the parent has
\* an ancestor.
C4_Witness ==
    /\ phase = "directed"
    /\ ret[1] = "NotUnique"
    /\ Len(nodes) >= 3
    /\ \E k \in 1..Len(nodes) : nodes[k].depth = 2

\* C5 as claimed: add with a parent id that no stored node carries returns
\* UnknownNode(parent) and leaves nodes and the id index as they were.
C5_UnknownParentLeavesTree ==
    [][\A load \in Loads, node_ref \in Ids, parent \in Ids :
        (/\ add(load, node_ref, parent)
         /\ ~IdInUse(nodes, parent))
        => (/\ ret' = <<"UnknownNode", parent>>
            /\ nodes' = nodes
            /\ lookup' = lookup)]_vars

\* C6 as claimed: set_root on a tree that holds nodes leaves exactly the new
\* root, and no id of the previous tree other than the new root's id is
\* still resolved by node_by_id or accepted by add as a parent.
C6_SetRootDiscardsAll ==
    [][\A root_load \in Loads, root_ref \in Ids :
        (set_root(root_load, root_ref) /\ nodes # <<>>)
        => (/\ Len(nodes') = 1
            /\ nodes'[1].index = 0
            /\ nodes'[1].depth = 0
            /\ nodes'[1].width = 1
            /\ nodes'[1].children = <<>>
            /\ nodes'[1].parent_ref = None
            /\ \A k \in 1..Len(nodes) :
                  nodes[k].id # root_ref =>
                      /\ node_by_id(nodes', lookup', nodes[k].id) = None
                      /\ \A load \in Loads, node_ref \in Ids :
                            AddResult(nodes', lookup', load, node_ref,
                                      nodes[k].id).ret
                                = <<"UnknownNode", nodes[k].id>>)]_vars

C8_IterEqualsIterDepth ==
    /\ (phase = "directed" /\ nodes # <<>>) =>
          LET t == From(nodes, lookup) IN
          /\ IdsOf(iter(t.nodes)) = IdsAt(nodes, iter_depth(nodes))
          /\ iter_depth(nodes) = PreOrder(nodes, 0)
          /\ t.order = iter_depth(nodes)
    /\ phase = "depthfirst" =>
          \A k \in 1..Len(nodes) : nodes[k].index = k - 1

\* C8 witness: a converted tree of full size whose nodes were moved.
C8_Witness ==
    /\ phase = "depthfirst"
    /\ Len(nodes) = MaxNodes
    /\ \E k \in 1..Len(order) : order[k] # k - 1

\* C9: after the conversion node_by_id(id) returns, for every id a node
\* carries, that node: the id index holds the node's new arena index.
C9_LookupRebuilt ==
    phase = "depthfirst" =>
        \A k \in 1..Len(nodes) :
            /\ node_by_id(nodes, lookup, nodes[k].id) = Some(nodes[k])
            /\ lookup[nodes[k].id] = k - 1

\* C9 witness: a converted tree in which a node was moved to another index
\* and is found under its id.
C9_Witness ==
    /\ phase = "depthfirst"
    /\ \E k \in 1..Len(nodes) :
          /\ order[k] # k - 1
          /\ node_by_id(nodes, lookup, nodes[k].id) = Some(nodes[k])

\* Allocate a new array and copy element p[i] into slot i.
NaiveReorder(data, p) == [i \in 1..Len(data) |-> At(data, p[i])]

\* C10: sort_by_indices(data, p) ends, within at most Len(data) swaps per
\* cycle, and leaves data[i] = original data[p[i]] for every i, the result
\* of the allocate-and-copy reorder.
C10_SortByIndicesPermutes ==
    /\ spc # "diverged"
    /\ spc = "done" =>
          /\ Len(sout) = Len(sdata)
          /\ \A i \in 1..Len(sdata) : sout[i] = At(sdata, sindices[i])
          /\ sout = NaiveReorder(sdata, sindices)

\* C10 witness: a slice of three or more elements was reordered along a
\* cycle of length three or more.
C10_Witness ==
    /\ spc = "done"
    /\ Len(sdata) >= 3
    /\ sindices[1] = 1 /\ sindices[2] = 2 /\ sindices[3] = 0
    /\ sout # sdata

\* C19: no sequence of set_root and add calls makes add return
\* ReferenceOutOfBound: no add has returned it, and every parent reference
\* and every child index a stored node holds, and the index of every node
\* node_by_id resolves, is smaller than the number of stored nodes.
C19_AddNeverOutOfBound ==
    phase = "directed" =>
        /\ ret[1] # "ReferenceOutOfBound"
        /\ \A k \in 1..Len(nodes) :
              /\ nodes[k].parent_ref # None => nodes[k].parent_ref[1] < Len(nodes)
              /\ \A c \in 1..Len(nodes[k].children) :
                    nodes[k].children[c] < Len(nodes)
        /\ \A id \in Ids :
              node_by_id(nodes, lookup, id) # None
              => node_by_id(nodes, lookup, id)[1].index < Len(nodes)

\* C19 witness: after a set_root on a grown tree the id index still holds
\* an entry beyond the stored nodes, and an add below a node that has a
\* parent has walked the parent chain and succeeded.
C19_Witness ==
    /\ phase = "directed"
    /\ ret[1] = "Ok"
    /\ Len(nodes) >= 3
    /\ Last(nodes).depth >= 2
    /\ \E id \in DOMAIN lookup : lookup[id] >= Len(nodes)

\* The positions of the node at position p and of all its ancestors, found
\* through the children lists.
RECURSIVE AncestorsOrSelf(_, _)
AncestorsOrSelf(ns, p) ==
    {p} \cup UNION {AncestorsOrSelf(ns, q) : q \in ParentsOf(ns, p)}

\* C20: a successful add(load, id, parent) returns id and changes only
\* this: one node is appended at index = previous node count, with width
\* 1, no children and the index of the node parent resolves to as parent
\* reference; that index is appended as last entry of the parent's
\* children list; the width of the parent and of each of its ancestors
\* grows by one; id is registered so that node_by_id(id) returns the new
\* node.  Payload, index, id, depth and children list of every other node,
\* and the id index entry of every other id, stay as they were.
C20_AddFrame ==
    phase = "directed" =>
        \A load \in Loads, node_ref \in Ids, parent \in Ids :
            LET r == AddResult(nodes, lookup, load, node_ref, parent)
                n == Len(nodes)
            IN  r.ret[1] = "Ok" =>
                LET p == node_by_id(nodes, lookup, parent)[1].index
                    new == Last(r.nodes)
                    grown == AncestorsOrSelf(nodes, p)
                IN  /\ r.ret = <<"Ok", node_ref>>
                    /\ Len(r.nodes) = n + 1
                    /\ new.load = load /\ new.id = node_ref
                    /\ new.index = n /\ new.width = 1
                    /\ new.children = <<>> /\ new.parent_ref = Some(p)
                    /\ node_by_id(r.nodes, r.lookup, node_ref) = Some(new)
                    /\ DOMAIN r.lookup = (DOMAIN lookup) \cup {node_ref}
                    /\ \A id \in (DOMAIN lookup) \ {node_ref} :
                          r.lookup[id] = lookup[id]
                    /\ \A k \in 1..n :
                          /\ r.nodes[k].load = nodes[k].load
                          /\ r.nodes[k].id = nodes[k].id
                          /\ r.nodes[k].index = nodes[k].index
                          /\ r.nodes[k].depth = nodes[k].depth
                          /\ r.nodes[k].parent_ref = nodes[k].parent_ref
                          /\ r.nodes[k].children =
                                IF k - 1 = p THEN Append(nodes[k].children, n)
                                ELSE nodes[k].children
                          /\ r.nodes[k].width =
                                IF k - 1 \in grown
                                THEN nodes[k].width + 1
                                ELSE nodes[k].width

\* C20 witness: add has succeeded below a node that has a parent, after a
\* set_root that left the id of a discarded node in the id index.
C20_Witness ==
    /\ phase = "directed"
    /\ ret[1] = "Ok"
    /\ Len(nodes) >= 3
    /\ Last(nodes).depth = 2
    /\ ret[2] = Last(nodes).id
    /\ \E id \in DOMAIN lookup : ~IdInUse(nodes, id)

(***************************************************************************)
(* Vocabulary of the kinematics properties                                 *)
(***************************************************************************)
\* The positions on the path from the root to position i, found through
\* the children lists.
RECURSIVE PathFromRoot(_, _)
PathFromRoot(ns, i) ==
    IF ParentsOf(ns, i) = {} THEN <<i>>
    ELSE PathFromRoot(ns, CHOOSE q \in ParentsOf(ns, i) : TRUE) \o <<i>>

\* concat folded from the neutral element over the local transformations
\* of the nodes at the positions of path.
RECURSIVE NaiveWalk(_, _, _)
NaiveWalk(ns, ps, path) ==
    IF path = <<>> THEN neutral_element
    ELSE concat(NaiveWalk(ns, ps, ButLast(path)),
                transform(At(ns, Last(path)).load, ps, Last(path)))

\* The pose of the node at position i under the parameters ps.
PoseOf(ns, ps, i) == NaiveWalk(ns, ps, PathFromRoot(ns, i))

\* The positions flagged as selected effectors and as selected joints.
FlaggedEffectors(m) ==
    {k - 1 : k \in {i \in 1..Len(m.selected_effectors) : m.selected_effectors[i]}}
FlaggedJoints(m) ==
    {k - 1 : k \in {i \in 1..Len(m.selected_joints) : m.selected_joints[i]}}

\* The number of positions of S stored before position x.
RankIn(S, x) == Cardinality({y \in S : y < x})

\* The sum of effector_size over the nodes at the positions of S.
RECURSIVE SizeSum(_, _)
SizeSum(ns, S) ==
    IF S = {} THEN 0
    ELSE LET x == CHOOSE y \in S : TRUE IN
         effector_size(At(ns, x).load) + SizeSum(ns, S \ {x})

\* The rows [offset, offset + effector_size) of the effector at position e.
RowRange(ns, m, e) ==
    {m.offsets[e + 1] + d : d \in 0..(effector_size(At(ns, e).load) - 1)}

\* The entry of the column-major Jacobian buffer at column c and row r.
JacobianEntry(m, c, r) == m.matrix[c * m.rows + r + 1]

\* What partial_derivative writes for the effector at position e and the
\* joint at position j under the parameters ps.
DerivativeOf(ns, ps, e, j) ==
    partial_derivative(At(ns, e).load, PoseOf(ns, ps, e), At(ns, j).load,
                       PoseOf(ns, ps, j), <<0>>, 0)[1]

\* The column of every flagged joint, counted in storage order, holds the
\* partial derivative in the rows of the flagged effectors of its subtree
\* and zero in the rows of the other flagged effectors.
ColumnsFilled(ns, m, ps) ==
    \A j \in FlaggedJoints(m), e \in FlaggedEffectors(m) :
        \A r \in RowRange(ns, m, e) :
            JacobianEntry(m, RankIn(FlaggedJoints(m), j), r)
                = IF e \in SubtreeSet(ns, j) THEN DerivativeOf(ns, ps, e, j)
                  ELSE 0

(***************************************************************************)
(* Properties of the kinematics                                            *)
(***************************************************************************)
\* C11: accumulate over iter() of a DepthFirstArenaTree emits exactly one
\* pair per node, in storage order, and the value emitted for a node is
\* concat folded from the neutral element over the local transformations
\* of the nodes on the path from the root to the node.
C11_AccumulateIsAncestorWalk ==
    ret[1] = "accumulate" =>
        /\ Len(trafos) = Len(nodes)
        /\ \A k \in 1..Len(nodes) :
              /\ trafos[k][1] = nodes[k]
              /\ trafos[k][2] = PoseOf(nodes, params, k - 1)

\* C11 witness: accumulate has run over a tree in which a node follows a
\* deeper node, so that more than one value was popped, with parameters
\* that differ between nodes.
C11_Witness ==
    /\ ret[1] = "accumulate"
    /\ Len(trafos) >= 4
    /\ \E k \in 2..Len(nodes) : nodes[k].depth < nodes[k - 1].depth
    /\ \E k \in 2..Len(nodes) : params[k] # params[1]

\* What setup has to leave in the model m for the tree ns.
SetupShape(m, ns) ==
    /\ Len(m.selected_effectors) = Len(ns)
    /\ Len(m.selected_joints) = Len(ns)
    /\ Len(m.offsets) = Len(ns)
    /\ m.rows = SizeSum(ns, FlaggedEffectors(m))
    /\ m.cols = Cardinality(FlaggedJoints(m))
    /\ \A k \in 0..(Len(ns) - 1) :
          m.offsets[k + 1] = SizeSum(ns, {e \in FlaggedEffectors(m) : e < k})
    /\ \A e1, e2 \in FlaggedEffectors(m) :
          e1 # e2 => RowRange(ns, m, e1) \cap RowRange(ns, m, e2) = {}
    /\ UNION {RowRange(ns, m, e) : e \in FlaggedEffectors(m)} = 0..(m.rows - 1)
    /\ Len(m.matrix) = m.rows * m.cols
    /\ Len(m.configuration) = m.rows
    /\ \A i \in 1..Len(m.matrix) : m.matrix[i] = 0
    /\ \A i \in 1..Len(m.configuration) : m.configuration[i] = 0

\* C12: after setup, rows is the sum of effector_size over the flagged
\* effectors, cols the number of flagged joints, every node's offset the
\* sum of effector_size over the flagged effectors stored before it, the
\* row ranges of the flagged effectors are pairwise disjoint and cover
\* [0, rows), and the Jacobian buffer has rows * cols and the configuration
\* buffer rows entries, all zero, whatever the buffers held before.
C12_SetupShapesModel ==
    ret[1] = "setup" => SetupShape(model, nodes)

\* C12 witness: setup has run on a model whose buffers held entries, and
\* has left two effectors of different size and two joints.
C12_Witness ==
    /\ ret = <<"setup", 1>>
    /\ Cardinality(FlaggedEffectors(model)) = 2
    /\ model.rows = 3
    /\ model.cols = 2

\* C13: after setup and compute calls that request the Jacobian, the
\* column of each flagged joint holds what partial_derivative writes in the
\* rows of the flagged effectors of the joint's subtree, the joint
\* included, and zero in the rows of every other flagged effector.
C13_JacobianBySubtree ==
    (phase = "depthfirst" /\ ret[1] = "compute" /\ ret[2] # "EffectorsOnly")
    => ColumnsFilled(nodes, model, params)

\* C13 witness: a Jacobian was computed for a joint that is not the root,
\* with a flagged effector in its subtree and a flagged effector with rows
\* stored behind it outside its subtree.
C13_Witness ==
    /\ phase = "depthfirst"
    /\ ret[1] = "compute" /\ ret[2] # "EffectorsOnly"
    /\ \E j \in FlaggedJoints(model), e1, e2 \in FlaggedEffectors(model) :
          /\ j # 0
          /\ e1 \in SubtreeSet(nodes, j) /\ RowRange(nodes, model, e1) # {}
          /\ e2 \notin SubtreeSet(nodes, j) /\ RowRange(nodes, model, e2) # {}
          /\ e2 > j

\* C14: compute(EffectorsOnly) leaves the Jacobian buffer as it was,
\* compute(JacobianOnly) leaves the configuration buffer as it was,
\* compute(All) that completes leaves in both what the effectors and the
\* partial derivatives are under the parameters, and no mode changes rows,
\* cols, the offsets, the sizes or the selection flags.
C14_ComputeFrame ==
    [][ret'[1] = "compute" =>
        /\ ret'[2] = "EffectorsOnly" => model'.matrix = model.matrix
        /\ ret'[2] = "JacobianOnly" => model'.configuration = model.configuration
        /\ (ret'[2] = "All" /\ phase' = "depthfirst") =>
              /\ ColumnsFilled(nodes, model', params)
              /\ \A e \in FlaggedEffectors(model) :
                    \A r \in RowRange(nodes, model, e) :
                        model'.configuration[r + 1]
                            = effector(At(nodes, e).load, PoseOf(nodes, params, e),
                                       [i \in 1..model.rows |-> 0],
                                       model.offsets[e + 1])[r + 1]
        /\ model'.rows = model.rows
        /\ model'.cols = model.cols
        /\ model'.offsets = model.offsets
        /\ model'.sizes = model.sizes
        /\ model'.selected_joints = model.selected_joints
        /\ model'.selected_effectors = model.selected_effectors]_vars

\* C14 witness: compute(JacobianOnly) has run right after setup: the
\* Jacobian holds entries and the configuration is still all zero.
C14_Witness ==
    /\ phase = "depthfirst"
    /\ ret = <<"compute", "JacobianOnly">>
    /\ model.rows >= 2
    /\ \E i \in 1..Len(model.matrix) : model.matrix[i] # 0
    /\ \A i \in 1..Len(model.configuration) : model.configuration[i] = 0

\* C15 as claimed: solve runs at most max_iterations_count passes through
\* its loop and returns an iteration_count that is at most
\* max_iterations_count, for every max_iterations_count, 0 included.
C15_AtMostMaxIterations ==
    /\ Len(ik.measured) <= ik.max_iterations_count
    /\ ik.pc = "returned" =>
          ik.info[1].iteration_count <= ik.max_iterations_count

\* The largest number of passes: the loop body runs before the cap is
\* looked at.
PassCap == IF ik.max_iterations_count >= 1 THEN ik.max_iterations_count ELSE 1

\* C15 amended: solve ends after at most max(1, max_iterations_count)
\* passes through its loop: while it is in the loop fewer passes than that
\* have run, each of them counted, and the iteration_count it returns is at
\* most max(1, max_iterations_count) and at most the number of passes.
C15_AtMostOneOrMaxIterations ==
    /\ Len(ik.measured) <= PassCap
    /\ ik.pc = "loop" =>
          /\ Len(ik.measured) < PassCap
          /\ ik.counter = Len(ik.measured)
    /\ ik.pc = "returned" =>
          /\ ik.info[1].iteration_count <= PassCap
          /\ ik.info[1].iteration_count <= Len(ik.measured)
    /\ ik.pc = "panicked" => Len(ik.measured) = 0

\* C15 witness: solve built with max_iterations_count = 0 has run one pass
\* and returned iteration_count = 1.
C15_Witness ==
    /\ ik.pc = "returned"
    /\ ik.max_iterations_count = 0
    /\ Len(ik.measured) = 1
    /\ ik.info[1].iteration_count = 1

\* A pass of the running or finished solve has measured an error below
\* min_error.
MeasuredBelow == \E t \in 1..Len(ik.measured) : ik.measured[t] < ik.min_error

\* C16: with max_iterations_count >= 1, solve returns iteration_count =
\* max_iterations_count exactly when no pass measured an error below
\* min_error, and then the returned squared_error is not below min_error;
\* a smaller iteration_count comes with a squared_error below min_error.
C16_CountTellsConvergence ==
    (ik.pc = "returned" /\ ik.max_iterations_count >= 1) =>
        LET info == ik.info[1] IN
        /\ info.iteration_count <= ik.max_iterations_count
        /\ (info.iteration_count = ik.max_iterations_count) <=> ~MeasuredBelow
        /\ info.iteration_count = ik.max_iterations_count
              => ~(info.squared_error < ik.min_error)
        /\ info.iteration_count < ik.max_iterations_count
              => info.squared_error < ik.min_error

\* C16 witness: solve has returned after its second pass measured an error
\* below min_error, with an iteration_count below max_iterations_count.
C16_Witness ==
    /\ ik.pc = "returned"
    /\ ik.max_iterations_count >= 2
    /\ Len(ik.measured) = 2
    /\ ik.info[1].iteration_count = 1
    /\ ik.info[1].squared_error < ik.min_error

\* C17: solve leaves the parameter of every node that is not flagged as a
\* joint as it was when solve was called; in each pass the k-th entry of
\* the solved update is added to the parameter of the k-th flagged joint in
\* storage order, and column k of the Jacobian the update was solved from
\* is the column of that joint.
C17_UpdateOnlySelectedJoints ==
    (ik.pc \in {"loop", "returned"} /\ Len(ik.measured) >= 1) =>
        /\ Len(params) = Len(nodes)
        /\ \A k \in 1..Len(params) :
              /\ params[k] = ik.before[k]
                    + (IF k - 1 \in FlaggedJoints(model)
                       THEN ik.result[RankIn(FlaggedJoints(model), k - 1) + 1]
                       ELSE 0)
              /\ k - 1 \notin FlaggedJoints(model) => params[k] = 0
        /\ ColumnsFilled(nodes, model, ik.before)

\* C17 witness: a pass has added a non-zero update to a flagged joint that
\* is stored behind a node that is not flagged, with an effector in the
\* rows.
C17_Witness ==
    /\ ik.pc \in {"loop", "returned"}
    /\ Len(ik.measured) >= 1
    /\ model.rows >= 1
    /\ \E k1, k2 \in 1..Len(params) :
          /\ k1 < k2
          /\ ~model.selected_joints[k1]
          /\ model.selected_joints[k2]
          /\ params[k2] # ik.before[k2]

\* C18 as claimed: the squared_error solve returns is the squared residual
\* between the targets and the effector configuration of the parameters
\* it returns.
C18_ErrorOfReturnedParams ==
    ik.pc = "returned" =>
        ik.info[1].squared_error
            = SquaredSum(Difference(ik.targets,
                  flat_effectors(ComputeResult(model, nodes, params,
                                               "EffectorsOnly").model)))

\* The position in storage of the node that carries id.
PositionOfId(ns, id) == (CHOOSE k \in 1..Len(ns) : ns[k].id = id) - 1

\* C21: the conversion of a tree that holds nodes succeeds, and afterwards
\* every node's children list names, by new arena index, the nodes that were
\* its children before (same ids, same order); its entries are strictly
\* increasing and the first child of the node stored at index i is stored
\* at index i + 1.
C21_ChildrenTranslated ==
    [][(Convert /\ nodes # <<>>) =>
        /\ phase' = "depthfirst"
        /\ \A k \in 1..Len(nodes) :
              LET old == nodes[k]
                  i == PositionOfId(nodes', old.id)
                  new == At(nodes', i)
              IN  /\ Len(new.children) = Len(old.children)
                  /\ IdsAt(nodes', new.children) = IdsAt(nodes, old.children)
                  /\ \A c \in 1..(Len(new.children) - 1) :
                        new.children[c] < new.children[c + 1]
                  /\ new.children # <<>> => new.children[1] = i + 1
                  /\ new.index = i]_vars

\* C21 witness: a converted tree in which a node that has a child was
\* moved, and a node has two children of which one was moved.
C21_Witness ==
    /\ phase = "depthfirst"
    /\ \E k \in 2..Len(nodes) :
          /\ order[k] # k - 1
          /\ nodes[k].children # <<>>
    /\ \E k \in 1..Len(nodes) :
          /\ Len(nodes[k].children) = 2
          /\ At(order, nodes[k].children[2]) # nodes[k].children[2]

\* C22 as claimed: after the conversion every non-root node's stored parent
\* index is the arena index of the node whose children list contains it,
\* and the root has no parent index.
C22_ParentIndexTranslated ==
    phase = "depthfirst" =>
        /\ nodes[1].parent_ref = None
        /\ \A j \in 1..(Len(nodes) - 1) :
              /\ At(nodes, j).parent_ref # None
              /\ At(nodes, j).parent_ref[1] \in ParentsOf(nodes, j)

\* C23: the conversion changes no node's id, payload, depth or width: each
\* id carries the same payload, depth and width before and after, no id is
\* lost or added, and on the converted tree every width is the size of the
\* subtree the children lists describe, the root has depth 0 and every other
\* node lies one level below the one node that lists it as a child.
C23_ConversionKeepsNodes ==
    [][(Convert /\ nodes # <<>>) =>
        /\ Len(nodes') = Len(nodes)
        /\ \A k \in 1..Len(nodes) :
              /\ IdInUse(nodes', nodes[k].id)
              /\ LET new == At(nodes', PositionOfId(nodes', nodes[k].id)) IN
                  /\ new.load = nodes[k].load
                  /\ new.depth = nodes[k].depth
                  /\ new.width = nodes[k].width
        /\ \A k \in 1..Len(nodes') :
              /\ nodes'[k].width = Cardinality(SubtreeSet(nodes', k - 1))
              /\ nodes'[k].width = 1 + SumWidths(nodes', nodes'[k].children)
        /\ nodes'[1].width = Len(nodes')
        /\ nodes'[1].depth = 0
        /\ \A j \in 1..(Len(nodes') - 1) :
              /\ Cardinality(ParentsOf(nodes', j)) = 1
              /\ \A i \in ParentsOf(nodes', j) :
                    At(nodes', j).depth = At(nodes', i).depth + 1]_vars

\* C23 witness: a converted tree of five segments with payloads that
\* differ, in which a node of width 2 was moved.
C23_Witness ==
    /\ phase = "depthfirst"
    /\ Len(nodes) = 5
    /\ \E k \in 2..Len(nodes) :
          /\ order[k] # k - 1
          /\ nodes[k].width = 2
          /\ nodes[k].load # nodes[1].load

\* C24 as claimed: the accumulator that takes the combining closure handles
\* every node in finitely many steps, also a node that is a sibling of, or
\* shallower than, the node before it; it emits one item per node, the
\* values of the ancestor walk, and then ends.
C24_AccumulationEnds ==
    scan.kind = "generic" =>
        /\ phase # "diverged"
        /\ Len(trafos) = scan.index
        /\ scan.done => Len(trafos) = Len(nodes)

\* The stack the scan holds after the node at position i: the poses of the
\* nodes on the path from the root to that node.
StackAfter(ns, ps, i) ==
    LET path == PathFromRoot(ns, i) IN
    [k \in 1..Len(path) |-> PoseOf(ns, ps, path[k])]

\* C25: while accumulate of forward.rs runs over a DepthFirstArenaTree,
\* after a node of depth d has been handled the stack holds d + 1 values,
\* the accumulated values of the nodes on its root path in order; after k
\* nodes there were k pushes and fewer than k pops, every popped value
\* having been pushed before, and the traversal of n nodes ends with n
\* pushes and at most n - 1 pops.
C25_StackIsRootPath ==
    (scan.kind = "rigid" /\ scan.index >= 1) =>
        LET node == At(nodes, scan.index - 1) IN
        /\ Len(scan.stack) = node.depth + 1
        /\ scan.stack = StackAfter(nodes, params, scan.index - 1)
        /\ scan.pushes = scan.index
        /\ scan.pops <= scan.index - 1
        /\ scan.pops + Len(scan.stack) = scan.pushes
        /\ scan.done => (scan.pushes = Len(nodes) /\ scan.pops <= Len(nodes) - 1)

\* C25 witness: the traversal of a tree of four nodes has ended after a
\* node that lies above its predecessor made two values pop.
C25_Witness ==
    /\ scan.kind = "rigid"
    /\ scan.done
    /\ Len(nodes) = 4
    /\ scan.pops >= 2
    /\ \E k \in 2..Len(nodes) : nodes[k].depth < nodes[k - 1].depth

\* The ids a slice of ids holds.
IdSet(ids) == {ids[k] : k \in 1..Len(ids)}

\* The ids the nodes of ns carry, and the positions of the nodes that
\* carry an id of S.
KnownIds(ns) == {ns[k].id : k \in 1..Len(ns)}
PositionsWithId(ns, S) == {k - 1 : k \in {i \in 1..Len(ns) : ns[i].id \in S}}

\* The slice of ids without the ids no node of ns carries.
RECURSIVE KnownOf(_, _)
KnownOf(ids, ns) ==
    IF ids = <<>> THEN <<>>
    ELSE (IF Head(ids) \in KnownIds(ns) THEN <<Head(ids)>> ELSE <<>>)
         \o KnownOf(Tail(ids), ns)

\* C26: setup with a joint id or an effector id that no node carries
\* completes and ignores that id: the flagged effectors and, for a joint
\* list that is not empty, the flagged joints are the nodes whose id is in
\* the list, rows and cols count only them, and the model is the one setup
\* leaves for the lists without the unknown ids (as long as a joint id is
\* left: the empty joint list selects every node).
C26_UnknownIdsIgnored ==
    (/\ ret[1] = "setup"
     /\ \/ IdSet(sel.joints) \ KnownIds(nodes) # {}
        \/ IdSet(sel.effectors) \ KnownIds(nodes) # {})
    => /\ phase = "depthfirst"
       /\ FlaggedEffectors(model) = PositionsWithId(nodes, IdSet(sel.effectors))
       /\ sel.joints # <<>> =>
             FlaggedJoints(model) = PositionsWithId(nodes, IdSet(sel.joints))
       /\ model.rows = SizeSum(nodes, PositionsWithId(nodes, IdSet(sel.effectors)))
       /\ sel.joints # <<>> =>
             model.cols = Cardinality(IdSet(sel.joints) \cap KnownIds(nodes))
       /\ Len(model.matrix) = model.rows * model.cols
       /\ Len(model.configuration) = model.rows
       /\ (sel.joints = <<>> \/ KnownOf(sel.joints, nodes) # <<>>) =>
             model = SetupResult(NewModel, nodes, KnownOf(sel.joints, nodes),
                                 KnownOf(sel.effectors, nodes))

\* C26 witness: setup was given a joint list and an effector list that each
\* hold an id of the tree and an id that no node carries.
C26_Witness ==
    /\ ret[1] = "setup"
    /\ Len(nodes) >= 2
    /\ IdSet(sel.joints) \ KnownIds(nodes) # {}
    /\ IdSet(sel.joints) \cap KnownIds(nodes) # {}
    /\ IdSet(sel.effectors) \ KnownIds(nodes) # {}
    /\ IdSet(sel.effectors) \cap KnownIds(nodes) # {}
    /\ model.rows >= 1
    /\ model.cols = 1

\* C27: the model setup leaves depends only on which ids were passed, not
\* on their order or on repetitions; the rows of the flagged effectors and
\* the slices effectors() returns follow the storage order, and after a
\* compute the column with number c holds the derivatives for the flagged
\* joint that has c flagged joints stored before it, and the rows of each
\* flagged effector hold its output.
C27_StorageOrderDecides ==
    /\ ret[1] = "setup" =>
          \A js \in {l \in ShortLists(BodyIds) : IdSet(l) = IdSet(sel.joints)},
             es \in {l \in ShortLists(BodyIds) : IdSet(l) = IdSet(sel.effectors)} :
              SetupResult(NewModel, nodes, js, es) = model
    /\ (ret[1] \in {"setup", "compute"} /\ phase = "depthfirst") =>
          /\ \A e \in FlaggedEffectors(model) :
                /\ model.offsets[e + 1]
                      = SizeSum(nodes, {x \in FlaggedEffectors(model) : x < e})
                /\ effectors(model)[RankIn(FlaggedEffectors(model), e) + 1]
                      = SubSeq(model.configuration, model.offsets[e + 1] + 1,
                               model.offsets[e + 1] + effector_size(At(nodes, e).load))
          /\ Len(effectors(model)) = Cardinality(FlaggedEffectors(model))
    /\ (ret[1] = "compute" /\ ret[2] = "All" /\ phase = "depthfirst") =>
          /\ ColumnsFilled(nodes, model, params)
          /\ \A e \in FlaggedEffectors(model) :
                \A r \in RowRange(nodes, model, e) :
                    model.configuration[r + 1]
                        = Tip(PoseOf(nodes, params, e)) + (r - model.offsets[e + 1])

\* C27 witness: compute(All) after a setup whose joint list named two nodes
\* against their storage order and whose effector list named two nodes
\* with rows against their storage order.
C27_Witness ==
    /\ ret = <<"compute", "All">>
    /\ phase = "depthfirst"
    /\ Len(sel.joints) = 2
    /\ Len(sel.effectors) = 2
    /\ sel.joints[1] \in KnownIds(nodes) /\ sel.joints[2] \in KnownIds(nodes)
    /\ lookup[sel.joints[1]] > lookup[sel.joints[2]]
    /\ sel.effectors[1] \in KnownIds(nodes) /\ sel.effectors[2] \in KnownIds(nodes)
    /\ lookup[sel.effectors[1]] > lookup[sel.effectors[2]]
    /\ \A e \in FlaggedEffectors(model) : RowRange(nodes, model, e) # {}
    /\ params # [k \in 1..Len(nodes) |-> 0]

\* C28: setup with an empty list of joint ids flags every node as a joint,
\* cols being the number of nodes; with a list that is not empty it flags
\* the nodes whose id is in the list, cols being their number, which is 0
\* when no node carries any of the ids.
C28_EmptyJointListSelectsAll ==
    ret[1] = "setup" =>
        /\ Len(model.selected_joints) = Len(nodes)
        /\ sel.joints = <<>> =>
              /\ \A k \in 1..Len(nodes) : model.selected_joints[k]
              /\ model.cols = Len(nodes)
        /\ sel.joints # <<>> =>
              /\ \A k \in 1..Len(nodes) :
                    model.selected_joints[k] <=> nodes[k].id \in IdSet(sel.joints)
              /\ model.cols = Cardinality(PositionsWithId(nodes, IdSet(sel.joints)))
              /\ IdSet(sel.joints) \cap KnownIds(nodes) = {} => model.cols = 0

\* C28 witness: setup with the empty joint list on a tree of three nodes.
C28_Witness ==
    /\ ret[1] = "setup"
    /\ sel.joints = <<>>
    /\ Len(nodes) >= 3
    /\ model.cols = Len(nodes)
    /\ model.rows >= 1

\* C29 as claimed: after a setup that flags no node as an effector,
\* compute with JacobianOnly or All completes and leaves an empty Jacobian
\* and an empty configuration.
C29_NoEffectorComputes ==
    (/\ ret[1] = "compute"
     /\ ret[2] \in {"JacobianOnly", "All"}
     /\ FlaggedEffectors(model) = {})
    => /\ phase = "depthfirst"
       /\ jacobian(model) = <<>>
       /\ flat_effectors(model) = <<>>

\* C30 as claimed: converting a DirectedArenaTree without nodes completes
\* and yields a DepthFirstArenaTree without nodes, on which iter() yields
\* nothing and root() returns RootNotSet.
C30_EmptyTreeConverts ==
    (ret[1] = "from" /\ nodes = <<>>)
    => /\ phase = "depthfirst"
       /\ iter(nodes) = <<>>
       /\ root(nodes)[1] = "RootNotSet"
====
